---- MODULE Spec2Model ----
(***************************************************************************)
(* Model of info/core/construct_network.py: findCausalRelationships and    *)
(* its help functions (getPreliminaryParents, updateGraphByParents,        *)
(* excludeSpuriousParents, isConvergence, temporallyMoveNodes,             *)
(* get_causal_paths, get_nodes_dict).                                      *)
(*                                                                         *)
(* Python exceptions are modelled as the outcome pc = "error" with the     *)
(* exception's class in err.  The names the module uses but does not       *)
(* define (get_node_number, intersect, independence,                       *)
(* conditionalIndependence, getParents) are modelled from the written      *)
(* specification; the oracle's verdicts are nondeterministic booleans.     *)
(***************************************************************************)
EXTENDS Integers, FiniteSets, Sequences, TLC

VARIABLES
    shape,       \* data.shape, a tuple of dimension sizes
    taumin,      \* parameter taumin
    taumax,      \* parameter taumax
    dtau,        \* parameter dtau
    deep,        \* parameter deep
    py,          \* major version of the Python interpreter running the module
    g,           \* the DiGraph: nodes, edges, graph['tau'], graph['ndim']
    tau,         \* the local time lag of findCausalRelationships
    j,           \* the loop variable j of findCausalRelationships
    ppaset,      \* ppaset (the value passed to updateGraphByParents / kept by excludeSpuriousParents)
    i,           \* the loop variable i of excludeSpuriousParents
    paseti,      \* paseti of excludeSpuriousParents
    todo,        \* the elements of paseti-{node_number_p} not yet visited by the inner for
    prelim,      \* predecessors of the node of interest when excludeSpuriousParents was entered
    nodes_in_paths, \* nodes_in_paths of excludeSpuriousParents (line 170)
    paseti_dict, \* paseti_dict of excludeSpuriousParents (line 172)
    queries,     \* the oracle calls made by the current call of excludeSpuriousParents
    verdict,     \* the outcome of the last isConvergence call
    causalDict,  \* the final parents set
    pc,          \* position in the code
    err          \* class of the exception raised, "none" if none

vars == <<shape, taumin, taumax, dtau, deep, py, g, tau, j, ppaset, i, paseti, todo,
          prelim, nodes_in_paths, paseti_dict, queries, verdict, causalDict, pc, err>>

params == <<shape, taumin, taumax, dtau, deep, py>>

pruneLocals == <<ppaset, i, paseti, todo, prelim, nodes_in_paths, paseti_dict, queries>>

----------------------------------------------------------------------------
(* Bounds of the model *)

MaxNdim == 2

MaxTauMin == 2

MaxTauMax == 3

MaxDtau == 3

MaxLag == 2

MaxEarlier == 4

MaxConvLag == 3

MaxConvNodes == 6

MaxEdges == 2

MaxDecodeLag == 20

----------------------------------------------------------------------------
(* Helpers *)

Max(a, b) == IF a >= b THEN a ELSE b

EmptyDict == [k \in {} |-> {}]

\* nx.DiGraph(ndim=ndim, tau=0)
DiGraph(n) == [nodes |-> {}, edges |-> {}, tau |-> 0, ndim |-> n]

\* utils.causal_network.get_node_number: id = timeLag * ndim + variableIndex
get_node_number(nodedict, n, lag) == nodedict[2] * n + nodedict[1]

\* g.predecessors(node)
predecessors(gr, node) == {e[1] : e \in {d \in gr.edges : d[2] = node}}

\* g.add_node(node)
add_node(gr, node) == [gr EXCEPT !.nodes = @ \cup {node}]

remove_edge_Noop(gr, u, v) == gr

remove_edge_Moves(gr, u, v) ==
    [gr EXCEPT !.edges = (@ \ {<<u, v>>}) \cup {<<u + gr.ndim, v>>}]

\* g.remove_edge(u, v) on an edge that is present
remove_edge(gr, u, v) == [gr EXCEPT !.edges = @ \ {<<u, v>>}]

\* the interpreters the module may run under: a / b on two ints is the
\* floor quotient (an int) in Python 2 and the true quotient (a float) in
\* Python 3
PythonVersions == {2, 3}

\* a / b on ints: the number num/den and its Python type
Divide(a, b, version) ==
    IF version = 2
    THEN [type |-> "int", num |-> a \div b, den |-> 1]
    ELSE [type |-> "float", num |-> a, den |-> b]

\* get_nodes_dict: (node % ndim, node / ndim) for each node
get_nodes_dict(gr, nodes_number, version) ==
    {<<node % gr.ndim, Divide(node, gr.ndim, version)>> : node \in nodes_number}

\* decode of the node indexer: (id mod ndim, id div ndim)
decode(id, n) == <<id % n, id \div n>>

\* getParents (called on line 67, defined nowhere in the module): the parent
\* set of the node, each parent in (index, lag) form
getParents(gr, nodedict) ==
    {decode(pa, gr.ndim) : pa \in predecessors(gr, get_node_number(nodedict, gr.ndim, 0))}

\* utils.causal_network.intersect: the elements two collections share
intersect(a, b) == a \cap b

\* temporallyMoveNodes: node + lag*ndim for each node
temporallyMoveNodes(gr, nodes, lag) == {node + lag * gr.ndim : node \in nodes}

RECURSIVE Descendants(_, _)
Descendants(gr, S) ==
    LET N == S \cup {e[2] : e \in {d \in gr.edges : d[1] \in S}}
    IN  IF N = S THEN S ELSE Descendants(gr, N)

RECURSIVE Ancestors(_, _)
Ancestors(gr, S) ==
    LET N == S \cup {e[1] : e \in {d \in gr.edges : d[2] \in S}}
    IN  IF N = S THEN S ELSE Ancestors(gr, N)

\* get_causal_paths: the nodes of all simple paths from snode to tnode.  The
\* graph is acyclic (every edge leads to a later lag), so every path is simple
\* and a node lies on one iff snode reaches it and it reaches tnode.
get_causal_paths_AllNodes(gr, snode, tnode) == gr.nodes

get_causal_paths(gr, snode, tnode) ==
    IF snode # tnode /\ tnode \in Descendants(gr, {snode})
    THEN Descendants(gr, {snode}) \cap Ancestors(gr, {tnode})
    ELSE {}

updateGraphByParents_Shifted(gr, paset, nodedict) ==
    LET node_number == get_node_number(nodedict, gr.ndim, 0)
    IN  [gr EXCEPT !.nodes = @ \cup (IF paset = {} THEN {} ELSE paset \cup {node_number}),
                   !.edges = @ \cup {<<pa + gr.ndim, node_number>> : pa \in paset}]

updateGraphByParents_Reversed(gr, paset, nodedict) ==
    LET node_number == get_node_number(nodedict, gr.ndim, 0)
    IN  [gr EXCEPT !.nodes = @ \cup (IF paset = {} THEN {} ELSE paset \cup {node_number}),
                   !.edges = @ \cup {<<node_number, pa>> : pa \in paset}]

\* updateGraphByParents: g.add_edge(pa, node_number) for every pa in paset
\* (add_edge adds the edge and any endpoint that is missing)
updateGraphByParents(gr, paset, nodedict) ==
    LET node_number == get_node_number(nodedict, gr.ndim, 0)
    IN  [gr EXCEPT !.nodes = @ \cup (IF paset = {} THEN {} ELSE paset \cup {node_number}),
                   !.edges = @ \cup {<<pa, node_number>> : pa \in paset}]

----------------------------------------------------------------------------
(* isConvergence *)

isConvergence_DtauStrict(gr, tmin, tmax, dt) ==
    IF gr.tau < tmin THEN "False"
    ELSE IF gr.tau > tmax THEN "True"
    ELSE IF gr.tau < dt THEN "False"
    ELSE IF dt - 1 >= 1 /\ gr.ndim >= 1 THEN "TypeError"
    ELSE "True"

isConvergence_NoCutoff(gr, tmin, tmax, dt) ==
    IF gr.tau < tmin THEN "False"
    ELSE IF gr.tau > tmax + 1 THEN "True"
    ELSE IF gr.tau <= dt THEN "False"
    ELSE IF dt - 1 >= 1 /\ gr.ndim >= 1 THEN "TypeError"
    ELSE "True"

isConvergence_NoMin(gr, tmin, tmax, dt) ==
    IF gr.tau > tmax THEN "True"
    ELSE IF gr.tau <= dt THEN "False"
    ELSE IF dt - 1 >= 1 /\ gr.ndim >= 1 THEN "TypeError"
    ELSE "True"

\* The verdict "True" / "False", or "TypeError": the first pass through the
\* body of the nested for loops calls g.predecessors(g, node_number_1), one
\* positional argument too many.  The body runs when range(dtau-1) and
\* range(ndim) are both non-empty.
isConvergence(gr, tmin, tmax, dt) ==
    IF gr.tau < tmin THEN "False"
    ELSE IF gr.tau > tmax THEN "True"
    ELSE IF gr.tau <= dt THEN "False"
    ELSE IF dt - 1 >= 1 /\ gr.ndim >= 1 THEN "TypeError"
    ELSE "True"

----------------------------------------------------------------------------
(* findCausalRelationships *)

Shapes ==
    {<<1>>} \cup {<<1, d>> : d \in 0..MaxNdim} \cup {<<1, d, 1>> : d \in 1..MaxNdim}

Init ==
    /\ shape \in Shapes
    /\ taumin \in -1..MaxTauMin
    /\ taumax \in -1..MaxTauMax
    /\ dtau \in -1..MaxDtau
    /\ deep \in BOOLEAN
    /\ py \in PythonVersions
    /\ g = DiGraph(0)
    /\ tau = 0
    /\ j = 0
    /\ ppaset = {}
    /\ i = 0
    /\ paseti = {}
    /\ todo = {}
    /\ prelim = {}
    /\ nodes_in_paths = {}
    /\ paseti_dict = {}
    /\ queries = {}
    /\ verdict = "none"
    /\ causalDict = EmptyDict
    /\ pc = "start"
    /\ err = "none"

\* lines 31-36: npts, ndim = data.shape raises ValueError unless data is 2-D
Unpack ==
    /\ pc = "start"
    /\ IF Len(shape) = 2
       THEN /\ g' = DiGraph(shape[2])
            /\ pc' = "anchors"
            /\ err' = err
       ELSE /\ g' = g
            /\ pc' = "error"
            /\ err' = "ValueError"
    /\ tau' = 0
    /\ j' = 0
    /\ causalDict' = EmptyDict
    /\ UNCHANGED <<params, pruneLocals, verdict>>

\* lines 39-42: one pass of the loop that adds the nodes at tau = 0
AddAnchor ==
    /\ pc = "anchors"
    /\ j < g.ndim
    /\ g' = add_node(g, get_node_number(<<j, tau>>, g.ndim, 0))
    /\ j' = j + 1
    /\ UNCHANGED <<params, pruneLocals, tau, verdict, causalDict, pc, err>>

\* line 39: range(ndim) is exhausted
AnchorsDone ==
    /\ pc = "anchors"
    /\ j >= g.ndim
    /\ pc' = "while"
    /\ UNCHANGED <<params, pruneLocals, g, tau, j, verdict, causalDict, err>>

WhileTest_Mutating ==
    /\ pc = "while"
    /\ verdict' = isConvergence(g, taumin, taumax, dtau)
    /\ pc' = CASE verdict' = "True" -> "assemble"
               [] verdict' = "False" -> "body"
               [] OTHER -> "error"
    /\ err' = IF verdict' = "TypeError" THEN "TypeError" ELSE err
    /\ j' = 0
    /\ g' = [g EXCEPT !.tau = @ + 1]
    /\ UNCHANGED <<params, pruneLocals, tau, causalDict>>

\* line 45: the while test
WhileTest ==
    /\ pc = "while"
    /\ verdict' = isConvergence(g, taumin, taumax, dtau)
    /\ pc' = CASE verdict' = "True" -> "assemble"
               [] verdict' = "False" -> "body"
               [] OTHER -> "error"
    /\ err' = IF verdict' = "TypeError" THEN "TypeError" ELSE err
    /\ j' = 0
    /\ UNCHANGED <<params, pruneLocals, g, tau, causalDict>>

\* line 47: tau += 1, and the for loop of line 51 starts
LoopBody ==
    /\ pc = "body"
    /\ tau' = tau + 1
    /\ j' = 0
    /\ pc' = "propose"
    /\ UNCHANGED <<params, pruneLocals, g, verdict, causalDict, err>>

getPreliminaryParents_TooFar ==
    /\ pc = "propose"
    /\ j < g.ndim
    /\ g' = add_node(g, get_node_number(<<j, g.tau + 2>>, g.ndim, 0))
    /\ pc' = "error"
    /\ err' = "TypeError"
    /\ UNCHANGED <<params, pruneLocals, tau, j, verdict, causalDict>>

\* line 53, getPreliminaryParents(g, j): the node Xj_tau+1 is added (line 94),
\* ppaset = [] (line 97), ppaset1 becomes the list temporallyMoveNodes returns
\* (line 103), and ppaset | ppaset1 (line 106) raises TypeError: list has no |
getPreliminaryParents ==
    /\ pc = "propose"
    /\ j < g.ndim
    /\ g' = add_node(g, get_node_number(<<j, g.tau + 1>>, g.ndim, 0))
    /\ pc' = "error"
    /\ err' = "TypeError"
    /\ UNCHANGED <<params, pruneLocals, tau, j, verdict, causalDict>>

\* line 57: g.graph['tau'] = tau, and the for loop of line 60 starts
SetTau ==
    /\ pc = "propose"
    /\ j >= g.ndim
    /\ g' = [g EXCEPT !.tau = tau]
    /\ j' = 0
    /\ pc' = "prune"
    /\ UNCHANGED <<params, pruneLocals, tau, verdict, causalDict, err>>

\* line 60: range(ndim) is exhausted, back to the while test
PruneLoopDone ==
    /\ pc = "prune"
    /\ j >= g.ndim
    /\ pc' = "while"
    /\ UNCHANGED <<params, pruneLocals, g, tau, j, verdict, causalDict, err>>

\* lines 65-67: getParents(g, (j, tau)) is evaluated, then the assignment to
\* causalDict[i] raises NameError: i is not bound in findCausalRelationships
Assemble ==
    /\ pc = "assemble"
    /\ j < g.ndim
    /\ pc' = "error"
    /\ err' = "NameError"
    /\ UNCHANGED <<params, pruneLocals, g, tau, j, verdict, causalDict>>

\* line 70: return causalDict
Return ==
    /\ pc = "assemble"
    /\ j >= g.ndim
    /\ pc' = "done"
    /\ UNCHANGED <<params, pruneLocals, g, tau, j, verdict, causalDict, err>>

Next ==
    \/ Unpack
    \/ AddAnchor
    \/ AnchorsDone
    \/ WhileTest
    \/ LoopBody
    \/ getPreliminaryParents
    \/ SetTau
    \/ PruneLoopDone
    \/ Assemble
    \/ Return

Spec == Init /\ [][Next]_vars

----------------------------------------------------------------------------
(* The steps of the while body behind getPreliminaryParents: line 54 and     *)
(* excludeSpuriousParents (line 62)                                         *)

\* the node of interest (j, tau) of lines 52 and 61, as a node number
node_number == get_node_number(<<j, tau>>, g.ndim, 0)

\* Xi_0 of line 161-162, as a node number
node_number_p == get_node_number(<<i, 0>>, g.ndim, 0)

\* line 54: g = updateGraphByParents(g, ppaset, nodedict), then the next j
UpdateStep ==
    /\ pc = "update"
    /\ g' = updateGraphByParents(g, ppaset, <<j, tau>>)
    /\ j' = j + 1
    /\ pc' = "propose"
    /\ UNCHANGED <<params, pruneLocals, tau, verdict, causalDict, err>>

\* lines 62, 150-159: excludeSpuriousParents is entered for (j, tau)
ExcludeEnter ==
    /\ pc = "prune"
    /\ j < g.ndim
    /\ ppaset' = predecessors(g, node_number)
    /\ prelim' = predecessors(g, node_number)
    /\ i' = 0
    /\ paseti' = {}
    /\ todo' = {}
    /\ nodes_in_paths' = {}
    /\ paseti_dict' = {}
    /\ queries' = {}
    /\ pc' = "step1"
    /\ UNCHANGED <<params, g, tau, j, verdict, causalDict, err>>

\* lines 161-167: if independence(Xi_0, Xj_tau): discard Xi_0 from ppaset and
\* remove the edge; remove_edge raises NetworkXError when the edge is absent
Step1 ==
    /\ pc = "step1"
    /\ \E independence \in BOOLEAN :
        /\ queries' = queries \cup
              {[op |-> "independence", line |-> 165, x |-> node_number_p,
                y |-> node_number, conditionset |-> {}, result |-> independence]}
        /\ IF independence
          THEN /\ ppaset' = ppaset \ {node_number_p}
               /\ IF <<node_number_p, node_number>> \in g.edges
                  THEN /\ g' = remove_edge(g, node_number_p, node_number)
                       /\ pc' = "step3"
                       /\ err' = err
                  ELSE /\ g' = g
                       /\ pc' = "error"
                       /\ err' = "NetworkXError"
          ELSE /\ pc' = "step3"
               /\ UNCHANGED <<g, ppaset, err>>
    /\ UNCHANGED <<params, tau, j, i, paseti, todo, prelim, nodes_in_paths, paseti_dict,
                   verdict, causalDict>>

\* lines 170-180: paseti is computed; when Xi_0 is in paseti with another
\* parent, the argument paseti_dict-{nodedict_p} of line 177 (a list minus a
\* set) raises TypeError before conditionalIndependence is called
Step3 ==
    /\ pc = "step3"
    /\ nodes_in_paths' = get_causal_paths(g, node_number_p, node_number)
    /\ paseti' = intersect(nodes_in_paths', ppaset)
    /\ paseti_dict' = get_nodes_dict(g, paseti', py)
    /\ IF node_number_p \in paseti' /\ Cardinality(paseti') > 1
       THEN /\ pc' = "error"
            /\ err' = "TypeError"
       ELSE /\ pc' = "step4"
            /\ err' = err
    /\ UNCHANGED <<params, g, tau, j, ppaset, i, todo, prelim, queries, verdict, causalDict>>

InnerForStart_WithAnchor ==
    /\ pc = "step4"
    /\ todo' = IF Cardinality(ppaset) > 1 THEN paseti ELSE {}
    /\ pc' = "inner"
    /\ UNCHANGED <<params, g, tau, j, ppaset, i, paseti, prelim, nodes_in_paths,
                   paseti_dict, queries, verdict, causalDict, err>>

InnerForStart_AllParents ==
    /\ pc = "step4"
    /\ todo' = IF Cardinality(ppaset) > 1 THEN ppaset \ {node_number_p} ELSE {}
    /\ pc' = "inner"
    /\ UNCHANGED <<params, g, tau, j, ppaset, i, paseti, prelim, nodes_in_paths,
                   paseti_dict, queries, verdict, causalDict, err>>

\* lines 183-184: the inner for runs over paseti-{node_number_p} when
\* len(ppaset) > 1
InnerForStart ==
    /\ pc = "step4"
    /\ todo' = IF Cardinality(ppaset) > 1 THEN paseti \ {node_number_p} ELSE {}
    /\ pc' = "inner"
    /\ UNCHANGED <<params, g, tau, j, ppaset, i, paseti, prelim, nodes_in_paths,
                   paseti_dict, queries, verdict, causalDict, err>>

\* lines 185-195: one pass of the inner for, for a parent pa in any order.
\* conditionalIndependence(pa, Xj_tau | Xi_0) removes the edge pa -> Xj_tau;
\* otherwise, with deep, the argument paseti_dict-{nodedict_p} of line 192
\* raises TypeError
Inner_Ungated ==
    /\ pc = "inner"
    /\ \E pa \in todo :
          /\ todo' = todo \ {pa}
          /\ \E conditionalIndependence \in BOOLEAN :
              /\ queries' = queries \cup
                    {[op |-> "conditionalIndependence", line |-> 186, x |-> pa,
                      y |-> node_number, conditionset |-> {node_number_p},
                      result |-> conditionalIndependence]}
              /\ ppaset' = ppaset \ {pa}
              /\ paseti' = paseti \ {pa}
              /\ IF <<pa, node_number>> \in g.edges
                 THEN /\ g' = remove_edge(g, pa, node_number)
                      /\ pc' = pc
                      /\ err' = err
                 ELSE /\ g' = g
                      /\ pc' = "error"
                      /\ err' = "NetworkXError"
    /\ UNCHANGED <<params, tau, j, i, prelim, nodes_in_paths, paseti_dict, verdict, causalDict>>

Inner ==
    /\ pc = "inner"
    /\ \E pa \in todo :
          /\ todo' = todo \ {pa}
          /\ \E conditionalIndependence \in BOOLEAN :
              /\ queries' = queries \cup
                    {[op |-> "conditionalIndependence", line |-> 186, x |-> pa,
                      y |-> node_number, conditionset |-> {node_number_p},
                      result |-> conditionalIndependence]}
              /\ IF conditionalIndependence
                THEN /\ ppaset' = ppaset \ {pa}
                     /\ paseti' = paseti \ {pa}
                     /\ IF <<pa, node_number>> \in g.edges
                        THEN /\ g' = remove_edge(g, pa, node_number)
                             /\ pc' = pc
                             /\ err' = err
                        ELSE /\ g' = g
                             /\ pc' = "error"
                             /\ err' = "NetworkXError"
                ELSE /\ IF deep
                        THEN /\ pc' = "error"
                             /\ err' = "TypeError"
                        ELSE /\ pc' = pc
                             /\ err' = err
                     /\ UNCHANGED <<g, ppaset, paseti>>
    /\ UNCHANGED <<params, tau, j, i, prelim, nodes_in_paths, paseti_dict, verdict, causalDict>>

\* lines 159, 198: the inner for is exhausted; the next i, or return g and
\* the next j of line 60
InnerDone ==
    /\ pc = "inner"
    /\ todo = {}
    /\ IF i + 1 < g.ndim
       THEN /\ i' = i + 1
            /\ pc' = "step1"
            /\ j' = j
       ELSE /\ i' = i
            /\ pc' = "prune"
            /\ j' = j + 1
    /\ UNCHANGED <<params, g, tau, ppaset, paseti, todo, prelim, nodes_in_paths,
                   paseti_dict, queries, verdict, causalDict, err>>

\* Graphs passed to the help functions: node numbers of the lags 0..lag
NodesUpTo(n, lag) == 0..(n * (lag + 1) - 1)

\* edges from a node to a node of a later lag
ForwardEdges(n, sources, targets) ==
    {e \in sources \X targets : e[1] \div n < e[2] \div n}

RECURSIVE SubsetsUpTo(_, _)
SubsetsUpTo(S, k) ==
    IF k = 0 THEN {{}}
    ELSE LET prev == SubsetsUpTo(S, k - 1)
         IN  prev \cup {x[1] \cup {x[2]} : x \in prev \X S}

\* The state at line 54, for any variable jj of the for loop of line 51: the
\* graph holds the lags below tau with at most MaxEdges edges to later lags,
\* the nodes (0..jj, tau) added by line 94, and updateGraphByParents is about
\* to be called with a parent set drawn from the earlier nodes.
InitStep ==
    \E n \in 1..MaxNdim, t \in 1..MaxLag :
      /\ n * t <= MaxEarlier
      /\ \E jj \in 0..(n - 1) :
            LET earlier == NodesUpTo(n, t - 1)
                done    == {t * n + k : k \in 0..(jj - 1)}
            IN  /\ \E E \in SubsetsUpTo(ForwardEdges(n, earlier, earlier \cup done), MaxEdges) :
                      g = [nodes |-> earlier \cup done \cup {t * n + jj},
                           edges |-> E, tau |-> t - 1, ndim |-> n]
                /\ ppaset \in SUBSET earlier
                /\ j = jj
                /\ tau = t
                /\ shape = <<1, n>>
      /\ taumin = 0
      /\ taumax = MaxTauMax
      /\ dtau = 1
      /\ deep \in BOOLEAN
      /\ py \in PythonVersions
      /\ i = 0
      /\ paseti = {}
      /\ todo = {}
      /\ prelim = {}
      /\ nodes_in_paths = {}
      /\ paseti_dict = {}
      /\ queries = {}
      /\ verdict = "False"
      /\ causalDict = EmptyDict
      /\ pc = "update"
      /\ err = "none"

NextStep ==
    \/ UpdateStep
    \/ getPreliminaryParents
    \/ SetTau
    \/ ExcludeEnter
    \/ Step1
    \/ Step3
    \/ InnerForStart
    \/ Inner
    \/ InnerDone
    \/ PruneLoopDone

SpecStep == InitStep /\ [][NextStep]_vars

\* The state at line 45 for any graph of at most MaxConvNodes nodes with at
\* most MaxEdges edges, and any parameters
InitConv ==
    \E n \in 0..MaxNdim, t \in 0..MaxConvLag :
      /\ n * (t + 1) <= MaxConvNodes
      /\ \E E \in SubsetsUpTo(ForwardEdges(n, NodesUpTo(n, t), NodesUpTo(n, t)), MaxEdges) :
            g = [nodes |-> NodesUpTo(n, t), edges |-> E, tau |-> t, ndim |-> n]
      /\ tau = t
      /\ shape = <<1, n>>
      /\ taumin \in -1..MaxTauMin
      /\ taumax \in -1..MaxTauMax
      /\ dtau \in -1..MaxDtau
      /\ deep = FALSE
      /\ py \in PythonVersions
      /\ j = 0
      /\ ppaset = {}
      /\ i = 0
      /\ paseti = {}
      /\ todo = {}
      /\ prelim = {}
      /\ nodes_in_paths = {}
      /\ paseti_dict = {}
      /\ queries = {}
      /\ verdict = "none"
      /\ causalDict = EmptyDict
      /\ pc = "while"
      /\ err = "none"

NextConv ==
    \/ WhileTest
    \/ LoopBody
    \/ Assemble
    \/ Return

SpecConv == InitConv /\ [][NextConv]_vars

\* The program from its start together with the steps behind line 53
InitAll == Init \/ InitStep

NextAll == Next \/ NextStep

SpecAll == InitAll /\ [][NextAll]_vars

----------------------------------------------------------------------------
(* Properties of findCausalRelationships, checked under Spec *)

\* The parameters the interface admits: a 2-D observation matrix with at
\* least one variable is ValidData; dtau and taumax positive, 0 <= taumin <= taumax
ValidData == Len(shape) = 2 /\ shape[2] >= 1

ValidConfig == dtau >= 1 /\ taumax >= 1 /\ taumin >= 0 /\ taumin <= taumax

C2_NoConstruction ==
    (taumin > taumax /\ taumax >= 1 /\ dtau >= 1) =>
        (g.nodes = {} /\ tau = 0 /\ pc # "done")

\* C3 as claimed: when the observation matrix is not 2-D or has zero
\* variables the run never enters the expansion loop and never returns a
\* CausalDict.
C3_RejectsBadShape ==
    ((Len(shape) # 2 \/ shape[2] = 0) /\ ValidConfig) =>
        (pc \notin {"body", "propose", "prune", "assemble", "done"} /\ tau = 0)

\* C4 as claimed: once the loop has ended (isConvergence returned True; here
\* for taumin >= 0 and dtau >= 1) the run is not an error outcome, and the CausalDict returned has exactly the
\* keys 0..ndim-1, key j holding the decoded parents of (j, currentMaxLag).
C4_CausalDictEmitted ==
    /\ (verdict = "True" /\ taumin >= 0 /\ dtau >= 1) => pc # "error"
    /\ pc = "done" =>
          /\ DOMAIN causalDict = 0..(g.ndim - 1)
          /\ \A k \in 0..(g.ndim - 1) : causalDict[k] = getParents(g, <<k, g.tau>>)

\* C9 as claimed: with a 2-D matrix of at least one variable, positive dtau
\* and taumax, and 0 <= taumin <= taumax, the builder ends in Converged, never in an error
\* outcome, and currentMaxLag never exceeds taumax + 1.
C9_ReachesConverged ==
    (ValidData /\ ValidConfig) =>
        (pc # "error" /\ tau <= taumax + 1 /\ g.tau <= taumax + 1)

----------------------------------------------------------------------------
(* Properties of the expansion step, checked under SpecAll and SpecStep *)

\* C5: once the anchors are created, every anchor (a, 0), a in [0, ndim), is
\* a node of the graph, and no edge of the graph points into a lag-0 node.
C5_AnchorInvariance ==
    /\ \A e \in g.edges : e[2] >= g.ndim
    /\ pc \notin {"start", "anchors"} =>
          \A a \in 0..(g.ndim - 1) : a \in g.nodes /\ predecessors(g, a) = {}

C5_Witness ==
    /\ pc = "prune"
    /\ j = g.ndim
    /\ g.ndim = MaxNdim
    /\ \E e \in g.edges : e[1] < g.ndim /\ e[2] \div g.ndim = tau
    /\ \E a \in 0..(g.ndim - 1) : <<a, get_node_number(<<0, tau>>, g.ndim, 0)>> \notin g.edges

\* C6: while excludeSpuriousParents runs for (j, tau), and when it has
\* returned, the parent set of the node is a subset of the parent set the node
\* had when the function was entered (the preliminary parents inserted by
\* line 54).
C6_ParentSubset ==
    /\ pc \in {"step1", "step3", "step4", "inner"} =>
          predecessors(g, node_number) \subseteq prelim
    /\ (pc = "prune" /\ j >= 1) =>
          predecessors(g, get_node_number(<<j - 1, tau>>, g.ndim, 0)) \subseteq prelim

C6_Witness ==
    /\ pc = "prune"
    /\ j >= 1
    /\ predecessors(g, get_node_number(<<j - 1, tau>>, g.ndim, 0)) # prelim
    /\ predecessors(g, get_node_number(<<j - 1, tau>>, g.ndim, 0)) # {}

----------------------------------------------------------------------------
(* Properties of isConvergence, checked under SpecConv *)

\* isConvergence has just been evaluated on g
Evaluated == verdict # "none"

\* the parent set of every variable at lag k is its parent set at lag k-1
\* moved forward by one lag
ParentsStable(gr, k) ==
    \A v \in 0..(gr.ndim - 1) :
        predecessors(gr, get_node_number(<<v, k>>, gr.ndim, 0)) =
            temporallyMoveNodes(gr, predecessors(gr, get_node_number(<<v, k - 1>>, gr.ndim, 0)), 1)

\* C7 as claimed: in the window case (taumin <= tau <= taumax, tau > dtau)
\* isConvergence returns True iff the parent sets are stable at every lag k
\* of the window [tau-dtau, tau-1], and False otherwise.
C7_WindowVerdict ==
    (Evaluated /\ taumin <= g.tau /\ g.tau <= taumax /\ g.tau > dtau) =>
        verdict = (IF \A k \in (g.tau - dtau)..(g.tau - 1) : ParentsStable(g, k)
                   THEN "True" ELSE "False")

\* C8: isConvergence returns False whenever currentMaxLag < taumin, and the
\* builder is past the loop (assembling or done) only at a lag >= taumin.
C8_NotBeforeTauMin ==
    /\ (Evaluated /\ g.tau < taumin) => verdict = "False"
    /\ pc \in {"assemble", "done"} => g.tau >= taumin

C8_Witness ==
    /\ pc = "body"
    /\ verdict = "False"
    /\ g.tau < taumin
    /\ g.tau > taumax
    /\ g.edges # {}

\* C10: the step that evaluates isConvergence leaves the graph (nodes, edges,
\* ndim, currentMaxLag) unchanged, and evaluating the predicate again on the
\* graph it leaves behind gives the verdict it returned.
C10_NoSideEffects ==
    [][pc = "while" =>
          /\ g' = g
          /\ verdict' = isConvergence(g', taumin', taumax', dtau')]_vars

C10_Witness ==
    /\ pc = "assemble"
    /\ verdict = "True"
    /\ g.tau <= taumax
    /\ g.tau >= 2
    /\ g.edges # {}

-----------------------------------------------------------------------------
(* The two scenarios of the builder, checked under Spec *)

\* every oracle call made so far answered "independent"
AllIndependent == \A q \in queries : q.result

\* C11 as claimed: with two variables, taumin = 1, dtau = 1 and a taumax of
\* at least 1, and an oracle that answers "independent" to every query, the
\* builder ends without an error and the CausalDict it returns maps variable
\* 0 and variable 1 to the empty set.
C11_IndependentScenario ==
    (shape = <<1, 2>> /\ taumin = 1 /\ dtau = 1 /\ taumax >= 1 /\ AllIndependent) =>
        /\ pc # "error"
        /\ pc = "done" => causalDict = [k \in 0..1 |-> {}]

\* the oracle of the one-lag copy: (0, l-1) -> (1, l) is the only dependence,
\* a query is answered "independent" unless it asks about that pair
OnlyCopyDependence ==
    \A q \in queries :
        q.result = ~(q.x % 2 = 0 /\ q.y % 2 = 1 /\ q.x \div 2 = (q.y \div 2) - 1)

\* C12 as claimed: with two variables where variable 1 copies variable 0 one
\* lag later, and parameters the interface admits, the builder ends without
\* an error, the parents of variable 1 in the CausalDict contain
\* (0, tau - 1), and variable 0 has no parents.
C12_CopyScenario ==
    (shape = <<1, 2>> /\ ValidConfig /\ OnlyCopyDependence) =>
        /\ pc # "error"
        /\ pc = "done" => (<<0, g.tau - 1>> \in causalDict[1] /\ causalDict[0] = {})

-----------------------------------------------------------------------------
(* The node indexer: get_nodes_dict applied to an encoded node, for every
   ndim, variable index and lag within the bounds *)

\* the state at a call of get_nodes_dict (lines 172, 185): the graph holds
\* the node (j, tau), encoded by get_node_number, and paseti is that node
InitDecode ==
    \E n \in 1..MaxNdim, variableIndex \in 0..(MaxNdim - 1), timeLag \in 0..MaxDecodeLag :
      /\ variableIndex < n
      /\ shape = <<1, n>>
      /\ g = [DiGraph(n) EXCEPT !.tau = timeLag,
                                !.nodes = {get_node_number(<<variableIndex, timeLag>>, n, 0)}]
      /\ tau = timeLag
      /\ j = variableIndex
      /\ paseti = {get_node_number(<<variableIndex, timeLag>>, n, 0)}
      /\ py \in PythonVersions
      /\ taumin = 0
      /\ taumax = MaxTauMax
      /\ dtau = 1
      /\ deep = FALSE
      /\ ppaset = {}
      /\ i = 0
      /\ todo = {}
      /\ prelim = {}
      /\ nodes_in_paths = {}
      /\ paseti_dict = {}
      /\ queries = {}
      /\ verdict = "none"
      /\ causalDict = EmptyDict
      /\ pc = "decode"
      /\ err = "none"

\* line 172: paseti_dict = get_nodes_dict(g, list(paseti))
DecodeCall ==
    /\ pc = "decode"
    /\ paseti_dict' = get_nodes_dict(g, paseti, py)
    /\ pc' = "decoded"
    /\ UNCHANGED <<params, g, tau, j, ppaset, i, paseti, todo, prelim, nodes_in_paths,
                   queries, verdict, causalDict, err>>

NextDecode == DecodeCall

SpecDecode == InitDecode /\ [][NextDecode]_vars

\* C13 as claimed: get_nodes_dict turns the id tau*ndim + j back into the
\* pair (j, tau): the first component is j and the second is a number equal
\* to the integer tau.
C13_RoundTrip ==
    pc = "decoded" =>
        \A nodedict \in paseti_dict :
            /\ nodedict[1] = j
            /\ nodedict[2].num = tau * nodedict[2].den

-----------------------------------------------------------------------------
(* Properties of the pruning pass, checked under SpecStep *)

\* C14 as claimed: in the iteration for anchor Xi_0, the parents other than
\* Xi_0 are put to the conditional test of line 186 only if the node of
\* interest has more than one remaining parent and more than one of its
\* parents lies on the paths from Xi_0; otherwise none is tested or removed.
C14_Step4Gating ==
    [][(pc = "step4" /\ ~(Cardinality(ppaset) > 1 /\ Cardinality(paseti) > 1))
          => todo' = {}]_vars

\* the nodes one lag beyond the stored lag: created by the running expansion
\* iteration and not yet pruned
NewNodes(gr) == {n \in gr.nodes : n >= gr.ndim * (gr.tau + 1)}

\* C15 as claimed (checked under Spec): once the proposal for a variable is
\* over (the builder is not between lines 53 and 54), the incoming edges of
\* its new node at lag tau+1 are exactly the parents of the same variable one
\* lag earlier, each moved forward by one lag, together with the ndim anchors.
C15_Proposal ==
    (ValidData /\ ValidConfig /\ pc # "update") =>
        \A n \in NewNodes(g) :
            predecessors(g, n) =
                temporallyMoveNodes(g, predecessors(g, n - g.ndim), 1) \cup 0..(g.ndim - 1)

\* the oracle calls of the current pass that asked independence(Xi_0, Xj_tau)
\* and were answered "independent"
IndependentAnchors == {q \in queries : q.op = "independence" /\ q.result}

\* C16: when excludeSpuriousParents has returned for (j, tau), no anchor
\* Xi_0 for which independence(Xi_0, Xj_tau) was answered "independent" is a
\* parent of the node.
C16_IndependentAnchorsPruned ==
    (pc = "prune" /\ j >= 1) =>
        \A q \in IndependentAnchors : <<q.x, q.y>> \notin g.edges

C16_Witness ==
    /\ pc = "prune"
    /\ j >= 1
    /\ \E q \in IndependentAnchors :
          /\ q.x \in prelim
          /\ q.y = get_node_number(<<j - 1, tau>>, g.ndim, 0)

\* a step of excludeSpuriousParents removes an edge from a parent other than
\* Xi_0 only after asking conditionalIndependence(pa, Xj_tau | Xi_0) and
\* being answered "independent"; and it fails in the argument of the extra
\* test only with deep set, the graph untouched, after a test conditioned on
\* Xi_0 that was answered "dependent"
GatedPruneStep ==
    /\ \A e \in g.edges \ g'.edges :
          e[1] # node_number_p =>
              \E q \in queries' \ queries :
                  /\ q.op = "conditionalIndependence"
                  /\ q.x = e[1]
                  /\ q.y = e[2]
                  /\ q.conditionset = {node_number_p}
                  /\ q.result
    /\ (pc = "inner" /\ err' = "TypeError") =>
          /\ deep
          /\ g' = g
          /\ \E q \in queries' \ queries :
                q.op = "conditionalIndependence" /\ ~q.result

\* C17: an edge pa -> Xj_tau from a parent other than the anchor Xi_0 being
\* processed is removed only by a step that asked
\* conditionalIndependence(pa, Xj_tau | Xi_0) and was answered "independent";
\* and the argument of the extra test of lines 191-192 is evaluated only
\* with deep set, after a test conditioned on Xi_0 that removed nothing.
C17_DeepGating ==
    [][(pc \in {"step1", "step3", "step4", "inner"}) => GatedPruneStep]_vars

C17_Witness ==
    /\ pc = "inner"
    /\ ~deep
    /\ \E q \in queries :
          /\ q.op = "conditionalIndependence"
          /\ q.result
          /\ q.x \in prelim
          /\ <<q.x, q.y>> \notin g.edges
    /\ \E q \in queries : q.op = "conditionalIndependence" /\ ~q.result

\* a step of the iteration for Xi_0 that finds, or has found, no path from
\* Xi_0 to Xj_tau: it asks the oracle nothing, leaves the graph as it is and
\* raises nothing
NoPathStep ==
    /\ (pc = "step3" /\ nodes_in_paths' = {}) =>
          (g' = g /\ queries' = queries /\ pc' = "step4" /\ err' = err)
    /\ (pc \in {"step4", "inner"} /\ nodes_in_paths = {}) =>
          (g' = g /\ queries' = queries /\ pc' # "error" /\ err' = err)

\* C20: in the iteration for anchor Xi_0, when get_causal_paths (line 170)
\* finds no path from Xi_0 to Xj_tau, the rest of the iteration calls
\* conditionalIndependence for no parent, removes no edge and raises no
\* error: the inner loop has nothing to run over and the iteration ends.
C20_NoPathNoOp ==
    /\ []((pc = "inner" /\ nodes_in_paths = {}) => todo = {})
    /\ [][NoPathStep]_vars

C20_Witness ==
    /\ pc = "inner"
    /\ nodes_in_paths = {}
    /\ Cardinality(ppaset) > 1
    /\ \E q \in IndependentAnchors : q.x = node_number_p /\ q.x \in prelim

-----------------------------------------------------------------------------
(* Properties of the loop condition, checked under SpecConv *)

\* C18: isConvergence returns False whenever taumin <= currentMaxLag <=
\* taumax and currentMaxLag <= dtau; and with dtau >= 1 and taumax >= 1 the
\* test at lag 0 never ends the loop: the builder goes on to the loop body.
C18_NotWithinDtau ==
    /\ (Evaluated /\ taumin <= g.tau /\ g.tau <= taumax /\ g.tau <= dtau) =>
          verdict = "False"
    /\ (Evaluated /\ g.tau = 0 /\ dtau >= 1 /\ taumax >= 1) =>
          (verdict = "False" /\ pc \in {"body", "propose"})

C18_Witness ==
    /\ pc = "propose"
    /\ verdict = "False"
    /\ taumin <= g.tau
    /\ g.tau <= taumax
    /\ g.tau = dtau
    /\ g.tau >= 1

-----------------------------------------------------------------------------
(* The graph over the whole run, checked under SpecAll *)

\* the time lag of a node number
LagOf(gr, node) == node \div gr.ndim

\* C19: in every state no node is more than one lag beyond the stored lag
\* g.graph['tau'] and, once the anchors are created (lines 39-42), exactly
\* ndim nodes are at lag 0; no step removes a node and no step lowers the
\* stored lag.
C19_NodeInvariant ==
    /\ [](\A n \in g.nodes : LagOf(g, n) <= g.tau + 1)
    /\ [](pc # "anchors" => Cardinality({n \in g.nodes : LagOf(g, n) = 0}) = g.ndim)
    /\ [][g.nodes \subseteq g'.nodes /\ g'.tau >= g.tau]_vars

C19_Witness ==
    /\ pc = "error"
    /\ g.tau >= 1
    /\ g.edges # {}
    /\ Cardinality({n \in g.nodes : LagOf(g, n) = g.tau + 1}) >= 2

-----------------------------------------------------------------------------
(* The edges removed and the queries made by excludeSpuriousParents, checked
   under SpecStep *)

\* the node numbers of the anchors Xi_0
Anchors(gr) == 0..(gr.ndim - 1)

\* C21: while excludeSpuriousParents runs, its set ppaset is the predecessor
\* set of the node of interest; and when the node entered the pass with every
\* anchor among its parents (the parents line 109 unites with range(ndim)),
\* g.remove_edge is never called on an edge that is absent: the pass does not
\* end in NetworkXError, whatever the oracle answers.
C21_RemovalsOnPresentEdges ==
    /\ pc \in {"step1", "step3", "step4", "inner"} =>
          ppaset = predecessors(g, node_number)
    /\ err = "NetworkXError" => ~(Anchors(g) \subseteq prelim)

C21_Witness ==
    /\ pc = "prune"
    /\ j >= 1
    /\ Anchors(g) \subseteq prelim
    /\ IndependentAnchors # {}
    /\ \E q \in queries :
          /\ q.op = "conditionalIndependence"
          /\ q.result
          /\ q.x \in prelim
          /\ <<q.x, q.y>> \notin g.edges

\* the calls of conditionalIndependence made in the current pass
ConditionalQueries == {q \in queries : q.op = "conditionalIndependence"}

-----------------------------------------------------------------------------
(* The direction of the edges, checked under SpecAll *)

\* C22: in every state every edge goes from a node to a node of a strictly
\* later lag, so every parent of (j, tau) has a lag below tau, and the graph
\* has no cycle: no edge leads back from its target to its source.
C22_ForwardEdges ==
    /\ \A e \in g.edges : LagOf(g, e[1]) < LagOf(g, e[2])
    /\ \A e \in g.edges : e[1] \notin Descendants(g, {e[2]})

C22_Witness ==
    /\ pc = "prune"
    /\ \E e \in g.edges :
          /\ e[2] = get_node_number(<<g.ndim - 1, g.tau>>, g.ndim, 0)
          /\ e[1] \in ppaset
          /\ \E d \in g.edges : d[2] = e[1] /\ LagOf(g, d[1]) = 0

====
